---- MODULE Spec2Model ----
(***************************************************************************)
(* Wizard of OSS: the submission validator (interaction_event_handler),    *)
(* the attachment field codec (models.rs) and the hours aggregator         *)
(* (report_user_stats).                                                    *)
(*                                                                         *)
(* A Rust String is modelled as a Text: a sequence of tokens, each token   *)
(* standing for one character ("7", ":", "<") or for a fixed run of        *)
(* letters that the code never looks inside ("http", "alice").             *)
(***************************************************************************)
EXTENDS Integers, Sequences, FiniteSets, TLC

VARIABLES
    record,      \* codec: the OpenSourceAttachment handed to From, or None
    fields,      \* codec: Option<Vec<SlackMessageAttachmentFieldObject>>
    decoded,     \* codec: Option<Result<OpenSourceAttachment>> of try_from
    submission,  \* handler: the view submission being handled, or None
    pc,          \* handler: position of interaction_event_handler
    response,    \* handler: Option<Result<String, AppError>>
    calls,       \* handler: gateway calls made so far, in order
    channel,     \* gateway: messages posted to the OSS channel
    history,     \* stats: res.messages of conversations_history
    idx,         \* stats: number of messages the outer loop has consumed
    hours,       \* stats: the HashMap<String, i16>
    stats_pc,    \* stats: position of report_user_stats
    summary,     \* stats: Option of the map posted by chat_post_ephemeral
    http,        \* handler: Option of the response rendered at the boundary
    requests,    \* command: the slash commands in flight, and their tasks
    store,       \* form: the key-value store, user id to country
    modal,       \* form: the view parsed from RECORD_HOURS_MODAL
    views,       \* form: per user, the form opened since their last submission
    submitted    \* form: per user, the country of their last submission

vars == <<record, fields, decoded, submission, pc, response, calls, channel,
          history, idx, hours, stats_pc, summary, http, requests,
          store, modal, views, submitted>>

codec_vars == <<record, fields, decoded>>
handler_vars == <<submission, pc, response, calls, channel, http>>
stats_vars == <<history, idx, hours, stats_pc, summary>>
command_vars == <<requests>>
form_vars == <<store, modal, views, submitted>>

-----------------------------------------------------------------------------
(* Option and Result *)

None == <<>>
Some(x) == <<x>>
IsSome(o) == o # <<>>
Unwrap(o) == o[1]

Ok(v) == [ok |-> TRUE, value |-> v]
Err(e) == [ok |-> FALSE, error |-> e]

\* an anyhow::Error: its message and the context attached to it
Error(msg, ctx) == [msg |-> msg, context |-> ctx]

\* HashMap::new()
EmptyMap == [k \in {} |-> 0]

-----------------------------------------------------------------------------
(* i16 *)

I16_MIN == -32768
I16_MAX == 32767
RADIX == 10

Digit == [c \in {"0", "1", "2", "3", "4", "5", "6", "7", "8", "9"} |->
            CASE c = "0" -> 0 [] c = "1" -> 1 [] c = "2" -> 2 [] c = "3" -> 3
              [] c = "4" -> 4 [] c = "5" -> 5 [] c = "6" -> 6 [] c = "7" -> 7
              [] c = "8" -> 8 [] c = "9" -> 9]

DigitChar == [d \in 0..9 |->
            CASE d = 0 -> "0" [] d = 1 -> "1" [] d = 2 -> "2" [] d = 3 -> "3"
              [] d = 4 -> "4" [] d = 5 -> "5" [] d = 6 -> "6" [] d = 7 -> "7"
              [] d = 8 -> "8" [] d = 9 -> "9"]

InI16(n) == I16_MIN <= n /\ n <= I16_MAX

\* the digit loop of str::parse::<i16>: checked_mul by the radix, then
\* checked_add (positive) or checked_sub (negative) of the digit
RECURSIVE parse_digits(_, _, _, _)
parse_digits(digits, i, is_positive, result) ==
    IF i > Len(digits) THEN Ok(result)
    ELSE IF digits[i] \notin DOMAIN Digit THEN Err("InvalidDigit")
    ELSE LET mul == result * RADIX
             acc == IF is_positive THEN mul + Digit[digits[i]]
                                   ELSE mul - Digit[digits[i]]
         IN  IF ~InI16(mul) \/ ~InI16(acc)
             THEN Err(IF is_positive THEN "PosOverflow" ELSE "NegOverflow")
             ELSE parse_digits(digits, i + 1, is_positive, acc)

\* value.parse::<i16>()
parse_i16(src) ==
    IF src = <<>> THEN Err("Empty")
    ELSE IF src = <<"+">> \/ src = <<"-">> THEN Err("InvalidDigit")
    ELSE IF src[1] = "+" THEN parse_digits(Tail(src), 1, TRUE, 0)
    ELSE IF src[1] = "-" THEN parse_digits(Tail(src), 1, FALSE, 0)
    ELSE parse_digits(src, 1, TRUE, 0)

\* the decimal digits of a natural number, most significant first
RECURSIVE digits_of(_)
digits_of(n) ==
    IF n < RADIX THEN <<DigitChar[n]>>
    ELSE Append(digits_of(n \div RADIX), DigitChar[n % RADIX])

\* number_of_hours.to_string()
to_string(n) == IF n < 0 THEN <<"-">> \o digits_of(-n) ELSE digits_of(n)

-----------------------------------------------------------------------------
(* url::Url, over the characters the texts of this model are made of.     *)
(* Letters are the tokens of Alpha; the other characters are ":", "/",    *)
(* "<", ">" and the percent-encoded forms "%3C" and "%3E".                *)

Alpha == {"http", "s", "x", "ftp"}

\* the schemes the URL standard calls special, among those Alpha can spell
SpecialSchemes == {<<"http">>, <<"http", "s">>, <<"ftp">>}

\* length of the longest prefix of text, from position i on, made of the
\* characters of set
RECURSIVE run_length(_, _, _)
run_length(text, i, set) ==
    IF i > Len(text) \/ text[i] \notin set THEN 0
    ELSE 1 + run_length(text, i + 1, set)

\* length of the prefix of text that stops before the first character of set
RECURSIVE until_length(_, _, _)
until_length(text, i, set) ==
    IF i > Len(text) \/ text[i] \in set THEN 0
    ELSE 1 + until_length(text, i + 1, set)

Drop(text, n) == SubSeq(text, n + 1, Len(text))
Take(text, n) == SubSeq(text, 1, n)

\* the path percent-encode set holds "<" and ">"
percent_encode_path(path) ==
    [i \in 1..Len(path) |->
        IF path[i] = "<" THEN "%3C" ELSE IF path[i] = ">" THEN "%3E" ELSE path[i]]

\* host and path of a special URL: any number of slashes, then a non-empty
\* host of letters, then the path ("/" when none is written)
parse_special(scheme, rest) ==
    LET after == Drop(rest, run_length(rest, 1, {"/"}))
        h     == until_length(after, 1, {"/"})
        host  == Take(after, h)
        path  == Drop(after, h)
    IN  IF host = <<>> THEN Err("EmptyHost")
        ELSE IF \E i \in 1..Len(host) : host[i] \notin Alpha
             THEN Err("InvalidDomainCharacter")
        ELSE Ok([scheme |-> scheme,
                 host   |-> Some(host),
                 path   |-> IF path = <<>> THEN <<"/">>
                            ELSE percent_encode_path(path)])

\* a URL of any other scheme: "//" starts an (opaque) host, "/" a path, and
\* anything else is an opaque path, kept as written
parse_non_special(scheme, rest) ==
    IF Len(rest) >= 2 /\ rest[1] = "/" /\ rest[2] = "/"
    THEN LET after == Drop(rest, 2)
             h     == until_length(after, 1, {"/"})
             host  == Take(after, h)
         IN  IF \E i \in 1..Len(host) : host[i] \notin Alpha \cup {"%3C", "%3E"}
             THEN Err("InvalidDomainCharacter")
             ELSE Ok([scheme |-> scheme,
                      host   |-> Some(host),
                      path   |-> percent_encode_path(Drop(after, h))])
    ELSE IF Len(rest) >= 1 /\ rest[1] = "/"
    THEN Ok([scheme |-> scheme, host |-> None, path |-> percent_encode_path(rest)])
    ELSE Ok([scheme |-> scheme, host |-> None, path |-> rest])

\* Url::parse(input): a scheme of letters, then ":", is required (there is
\* no base URL to resolve a relative reference against)
url_parse(input) ==
    LET k == run_length(input, 1, Alpha)
    IN  IF k = 0 \/ k = Len(input) \/ input[k + 1] # ":"
        THEN Err("RelativeUrlWithoutBase")
        ELSE IF Take(input, k) \in SpecialSchemes
             THEN parse_special(Take(input, k), Drop(input, k + 1))
             ELSE parse_non_special(Take(input, k), Drop(input, k + 1))

\* Url::to_string(): the serialization
url_to_string(url) ==
    url.scheme \o <<":">>
        \o (IF IsSome(url.host) THEN <<"/", "/">> \o Unwrap(url.host) ELSE <<>>)
        \o url.path

\* parsed_url.scheme().starts_with("http")
starts_with_http(scheme) == Len(scheme) >= 1 /\ scheme[1] = "http"

\* trim_start_matches as a bug would have it: one leading '<' is removed
trim_start_once(text, c) ==
    IF text # <<>> /\ text[1] = c THEN Tail(text) ELSE text

\* value.trim_start_matches('<'): every leading '<' is removed
trim_start_matches(text, c) == Drop(text, run_length(text, 1, {c}))

\* value.trim_end_matches('>'): every trailing '>' is removed
RECURSIVE trim_end_matches(_, _)
trim_end_matches(text, c) ==
    IF text # <<>> /\ text[Len(text)] = c
    THEN trim_end_matches(Take(text, Len(text) - 1), c)
    ELSE text

-----------------------------------------------------------------------------
(* models.rs: OpenSourceAttachment and its field codec *)

Field(title, value) == [title |-> title, value |-> value]

\* the five slots of try_from before the loop: each holds "missing ..."
initial_slots ==
    [username        |-> Err(Error("missing username", <<>>)),
     number_of_hours |-> Err(Error("missing number of hours", <<>>)),
     country         |-> Err(Error("missing country", <<>>)),
     url             |-> Err(Error("missing url", <<>>)),
     description     |-> Err(Error("missing description", <<>>))]

\* parse_time as a bug would have it: the decoder rejects hours <= 0
parse_time_positive(value) ==
    LET r == parse_i16(value)
    IN  IF r.ok /\ r.value > 0 THEN r
        ELSE Err(Error(IF r.ok THEN "not positive" ELSE r.error, value))

\* value.parse::<i16>().context(value.clone())
parse_time(value) ==
    LET r == parse_i16(value)
    IN  IF r.ok THEN r ELSE Err(Error(r.error, value))

\* Url::parse(trimmed).context(value.clone())
parse_url_field(value) ==
    LET trimmed == trim_end_matches(trim_start_matches(value, "<"), ">")
        r       == url_parse(trimmed)
    IN  IF r.ok THEN r ELSE Err(Error(r.error, value))

\* match_field as a bug would have it: a title it does not know is skipped
match_field_lenient(slots, field) ==
    IF ~IsSome(field.title) \/ ~IsSome(field.value) THEN Ok(slots)
    ELSE LET title == Unwrap(field.title)
             value == Unwrap(field.value)
         IN  CASE title = "Author" -> Ok([slots EXCEPT !.username = Ok(value)])
               [] title = "Time" ->
                    Ok([slots EXCEPT !.number_of_hours = parse_time(value)])
               [] title = "Office" -> Ok([slots EXCEPT !.country = Ok(value)])
               [] title = "URL" -> Ok([slots EXCEPT !.url = parse_url_field(value)])
               [] title = "Description" ->
                    Ok([slots EXCEPT !.description = Ok(value)])
               [] OTHER -> Ok(slots)

\* match_field as a bug would have it: a slot that was assigned once keeps
\* its first value
match_field_first_wins(slots, field) ==
    IF ~IsSome(field.title) THEN Ok(slots)
    ELSE IF ~IsSome(field.value) THEN Ok(slots)
    ELSE LET title == Unwrap(field.title)
             value == Unwrap(field.value)
             keep(slot, new) == IF slot \in {initial_slots[n] : n \in DOMAIN initial_slots}
                                THEN new ELSE slot
         IN  CASE title = "Author" ->
                    Ok([slots EXCEPT !.username = keep(@, Ok(value))])
               [] title = "Time" ->
                    Ok([slots EXCEPT !.number_of_hours = keep(@, parse_time(value))])
               [] title = "Office" ->
                    Ok([slots EXCEPT !.country = keep(@, Ok(value))])
               [] title = "URL" ->
                    Ok([slots EXCEPT !.url = keep(@, parse_url_field(value))])
               [] title = "Description" ->
                    Ok([slots EXCEPT !.description = keep(@, Ok(value))])
               [] OTHER -> Err(Error("unknown field name", <<title>>))

\* one iteration of the loop over the fields: Ok(slots) to go on, Err to return
match_field(slots, field) ==
    IF ~IsSome(field.title) THEN Ok(slots)
    ELSE IF ~IsSome(field.value) THEN Ok(slots)
    ELSE LET title == Unwrap(field.title)
             value == Unwrap(field.value)
         IN  CASE title = "Author" -> Ok([slots EXCEPT !.username = Ok(value)])
               [] title = "Time" ->
                    Ok([slots EXCEPT !.number_of_hours = parse_time(value)])
               [] title = "Office" -> Ok([slots EXCEPT !.country = Ok(value)])
               [] title = "URL" -> Ok([slots EXCEPT !.url = parse_url_field(value)])
               [] title = "Description" ->
                    Ok([slots EXCEPT !.description = Ok(value)])
               [] OTHER -> Err(Error("unknown field name", <<title>>))

RECURSIVE scan_fields(_, _, _)
scan_fields(list, i, slots) ==
    IF i > Len(list) THEN Ok(slots)
    ELSE LET r == match_field(slots, list[i])
         IN  IF r.ok THEN scan_fields(list, i + 1, r.value) ELSE r

\* build_attachment as a bug would have it: the slots are taken out last
\* to first
build_attachment_reversed(slots) ==
    IF ~slots.description.ok THEN slots.description
    ELSE IF ~slots.url.ok THEN slots.url
    ELSE IF ~slots.country.ok THEN slots.country
    ELSE IF ~slots.number_of_hours.ok THEN slots.number_of_hours
    ELSE IF ~slots.username.ok THEN slots.username
    ELSE Ok([username        |-> slots.username.value,
             number_of_hours |-> slots.number_of_hours.value,
             country         |-> slots.country.value,
             url             |-> slots.url.value,
             description     |-> slots.description.value])

\* Ok(OpenSourceAttachment { username: username?, number_of_hours: ...? })
build_attachment(slots) ==
    IF ~slots.username.ok THEN slots.username
    ELSE IF ~slots.number_of_hours.ok THEN slots.number_of_hours
    ELSE IF ~slots.country.ok THEN slots.country
    ELSE IF ~slots.url.ok THEN slots.url
    ELSE IF ~slots.description.ok THEN slots.description
    ELSE Ok([username        |-> slots.username.value,
             number_of_hours |-> slots.number_of_hours.value,
             country         |-> slots.country.value,
             url             |-> slots.url.value,
             description     |-> slots.description.value])

\* OpenSourceAttachment::try_from(fields)
try_from(list) ==
    LET scanned == scan_fields(list, 1, initial_slots)
    IN  IF scanned.ok THEN build_attachment(scanned.value) ELSE scanned

\* fields_from as a bug would have it: "Author" and "Office" carry each
\* other's value
fields_from_swapped(value) ==
    << Field(Some("Author"), Some(value.country)),
       Field(Some("Time"), Some(to_string(value.number_of_hours))),
       Field(Some("Office"), Some(value.username)),
       Field(Some("URL"), Some(url_to_string(value.url))),
       Field(Some("Description"), Some(value.description)) >>

\* Vec<SlackMessageAttachmentFieldObject>::from(value)
fields_from(value) ==
    << Field(Some("Author"), Some(value.username)),
       Field(Some("Time"), Some(to_string(value.number_of_hours))),
       Field(Some("Office"), Some(value.country)),
       Field(Some("URL"), Some(url_to_string(value.url))),
       Field(Some("Description"), Some(value.description)) >>

-----------------------------------------------------------------------------
(* errors.rs: AppError *)

InternalServerError(inner) == [kind |-> "InternalServerError", inner |-> inner]
InputValidationError(field_name, message) ==
    [kind |-> "InputValidationError", field_name |-> field_name,
     message |-> message]

\* impl From<anyhow::Error> for AppError
from_anyhow(inner) == InternalServerError(inner)

StatusCode_OK == 200
StatusCode_INTERNAL_SERVER_ERROR == 500

\* into_response as a bug would have it: the body of an internal error
\* carries the message of the error behind it
into_response_leaky(self) ==
    IF self.kind = "InternalServerError"
    THEN [status |-> StatusCode_INTERNAL_SERVER_ERROR,
          body   |-> [error |-> self.inner.msg]]
    ELSE [status |-> StatusCode_OK,
          body   |-> [response_action |-> "errors",
                      errors |-> [name \in {self.field_name} |-> self.message]]]

\* impl IntoResponse for AppError: the status and the JSON body
into_response(self) ==
    IF self.kind = "InternalServerError"
    THEN [status |-> StatusCode_INTERNAL_SERVER_ERROR,
          body   |-> [error |-> "Something went wrong. See logs for details."]]
    ELSE [status |-> StatusCode_OK,
          body   |-> [response_action |-> "errors",
                      errors |-> [name \in {self.field_name} |-> self.message]]]

\* Result<String, AppError> at the boundary: the text with status 200, or
\* the error rendered
result_into_response(result) ==
    IF result.ok THEN [status |-> StatusCode_OK, body |-> result.value]
    ELSE into_response(result.error)

-----------------------------------------------------------------------------
(* request_handlers.rs: interaction_event_handler, a ViewSubmission *)

\* SlackViewStateExt::input_value and select_value: the value of the field
\* called name, an error when the view state holds none
input_value(view_state, name) ==
    IF IsSome(view_state[name]) THEN Ok(Unwrap(view_state[name]))
    ELSE Err(Error("Missing field", <<name>>))

select_value(view_state, name) ==
    IF IsSome(view_state[name]) THEN Ok(Unwrap(view_state[name]))
    ELSE Err(Error("Missing select", <<name>>))

\* check_hours as a bug would have it: zero hours pass
check_hours_zero_passes(number_of_hours) ==
    LET parsed_hours == parse_i16(number_of_hours)
    IN  IF ~parsed_hours.ok
        THEN Err(from_anyhow(Error("number_of_hours is not an i16",
                                   number_of_hours)))
        ELSE IF parsed_hours.value < 0
        THEN Err(InputValidationError("number_of_hours",
                     "Number of hours must be greater than 0"))
        ELSE parsed_hours

\* number_of_hours.parse::<i16>().context("number_of_hours is not an i16")?
\* and the check that follows it
check_hours(number_of_hours) ==
    LET parsed_hours == parse_i16(number_of_hours)
    IN  IF ~parsed_hours.ok
        THEN Err(from_anyhow(Error("number_of_hours is not an i16",
                                   number_of_hours)))
        ELSE IF parsed_hours.value <= 0
        THEN Err(InputValidationError("number_of_hours",
                     "Number of hours must be greater than 0"))
        ELSE parsed_hours

\* Url::parse(&url).map_err(..)? and the check of the scheme
check_url(url) ==
    LET parsed_url == url_parse(url)
    IN  IF ~parsed_url.ok
        THEN Err(InputValidationError("url", "Not a valid URL"))
        ELSE IF ~starts_with_http(parsed_url.value.scheme)
        THEN Err(InputValidationError("url",
                     "URL should point to an HTTP or HTTPS resource"))
        ELSE parsed_url

\* the handler from its entry to the users_info call: Err(AppError) when it
\* returns early, Ok of the validated pieces when it goes on
validate(event) ==
    IF ~IsSome(event.state)
    THEN Err(from_anyhow(Error("View submission did not contain state", <<>>)))
    ELSE
    LET view_state      == Unwrap(event.state)
        number_of_hours == input_value(view_state, "number_of_hours")
        url             == input_value(view_state, "url")
        description     == input_value(view_state, "description")
        country         == select_value(view_state, "country")
    IN  IF ~number_of_hours.ok THEN Err(from_anyhow(number_of_hours.error))
        ELSE IF ~url.ok THEN Err(from_anyhow(url.error))
        ELSE IF ~description.ok THEN Err(from_anyhow(description.error))
        ELSE IF ~country.ok THEN Err(from_anyhow(country.error))
        ELSE LET parsed_hours == check_hours(number_of_hours.value)
                 parsed_url   == check_url(url.value)
             IN  IF ~parsed_hours.ok THEN parsed_hours
                 ELSE IF ~parsed_url.ok THEN parsed_url
                 ELSE Ok([parsed_hours |-> parsed_hours.value,
                          parsed_url   |-> parsed_url.value,
                          description  |-> description.value,
                          country      |-> country.value])

\* the message of SlackApiChatPostMessageRequest: one attachment, colored
\* "good", whose fields encode the record
post_message(attachment) ==
    [attachments |-> Some(<< [color  |-> "good",
                              fields |-> Some(fields_from(attachment))] >>),
     username    |-> attachment.username \o <<" via Wizard of OSS">>]

-----------------------------------------------------------------------------
(* slack.rs: report_user_stats *)

\* attachments.iter().map(|x| x.fields.clone()).map(..).collect()
decode_entries(attachments) ==
    [i \in 1..Len(attachments) |->
        IF IsSome(attachments[i].fields)
        THEN try_from(Unwrap(attachments[i].fields))
        ELSE Err(Error("No attachments", <<>>))]

\* a + b in i16 where the build wraps on overflow
wrapping_add(a, b) == ((a + b - I16_MIN) % (I16_MAX - I16_MIN + 1)) + I16_MIN

\* hours.get(&entry.username).unwrap_or(&0)
get_or_zero(map, key) == IF key \in DOMAIN map THEN map[key] ELSE 0

\* hours.insert(key, value)
insert(map, key, value) ==
    [k \in DOMAIN map \cup {key} |-> IF k = key THEN value ELSE map[k]]

\* add_entries as a bug would have it: the first entry that failed to decode
\* ends the loop (break in the place of continue)
RECURSIVE add_entries_abort(_, _, _, _)
add_entries_abort(entries, i, map, overflowed) ==
    IF i > Len(entries) THEN [hours |-> map, overflowed |-> overflowed]
    ELSE IF ~entries[i].ok THEN [hours |-> map, overflowed |-> overflowed]
    ELSE LET entry   == entries[i].value
             current == IF entry.username \in DOMAIN map
                        THEN map[entry.username] ELSE 0
             sum     == current + entry.number_of_hours
         IN  add_entries_abort(entries, i + 1,
                 [k \in DOMAIN map \cup {entry.username} |->
                     IF k = entry.username
                     THEN ((sum - I16_MIN) % (I16_MAX - I16_MIN + 1)) + I16_MIN
                     ELSE map[k]],
                 overflowed \/ ~InI16(sum))

\* the loop over the entries of one message: the map after it, and whether
\* one of its additions left the i16 range
RECURSIVE add_entries(_, _, _, _)
add_entries(entries, i, map, overflowed) ==
    IF i > Len(entries) THEN [hours |-> map, overflowed |-> overflowed]
    ELSE IF ~entries[i].ok THEN add_entries(entries, i + 1, map, overflowed)
    ELSE LET entry   == entries[i].value
             current == get_or_zero(map, entry.username)
         IN  add_entries(entries, i + 1,
                 insert(map, entry.username,
                        wrapping_add(current, entry.number_of_hours)),
                 overflowed \/ ~InI16(current + entry.number_of_hours))

\* one iteration of the loop over res.messages
scan_message(map, message) ==
    IF ~IsSome(message.attachments) THEN [hours |-> map, overflowed |-> FALSE]
    ELSE add_entries(decode_entries(Unwrap(message.attachments)), 1, map, FALSE)

-----------------------------------------------------------------------------
(* The texts the model draws its inputs from *)

\* most brackets written before or after a URL
MaxBrackets == 2
\* largest everyday number of hours a record carries
MaxHours == 3

Repeat(c, n) == [i \in 1..n |-> c]

Usernames == {<<"alice">>, <<"bob">>}
Countries == {<<"DE">>, <<"US">>}
Descriptions == {<<>>, <<"fix">>}

\* URL texts as a user types them: scheme, ":", slashes, host and path, each
\* present or not, inside up to MaxBrackets pointy brackets
UrlBodies ==
    { scheme \o colon \o slashes \o host \o path :
        scheme \in {<<>>, <<"http">>, <<"http", "s">>, <<"http", "x">>,
                    <<"ftp">>, <<"x">>},
        colon \in {<<>>, <<":">>},
        slashes \in {<<>>, <<"/">>, <<"/", "/">>},
        host \in {<<>>, <<"x">>},
        path \in {<<>>, <<"/">>, <<"/", "<", ">", "s">>, <<">">>} }

Bracketed(bodies) ==
    { Repeat("<", l) \o body \o Repeat(">", t) :
        l \in 0..MaxBrackets, t \in 0..MaxBrackets, body \in bodies }

UrlTexts == Bracketed(UrlBodies)

\* every Url value the texts parse to
Urls == { url_parse(text).value : text \in {t \in UrlTexts : url_parse(t).ok} }

\* integers around zero and around both ends of the i16 range
Integers16 ==
    (-MaxHours..MaxHours) \cup {I16_MIN - 1, I16_MIN, I16_MAX, I16_MAX + 1}

\* texts in the place of a number: decimal integers, with an explicit plus
\* sign or a leading zero, and texts that are no integer at all
NumberTexts ==
    { to_string(n) : n \in Integers16 }
        \cup { <<"+">> \o to_string(n) : n \in 0..MaxHours }
        \cup { <<"0">> \o to_string(n) : n \in 0..MaxHours }
        \cup { <<>>, <<"-">>, <<"x">>, <<"1", "x">>, <<"1", ".", "5">> }

\* every OpenSourceAttachment the model hands to the encoder
Attachments ==
    [username        : Usernames,
     number_of_hours : (Integers16 \cap I16_MIN..I16_MAX),
     country         : {<<"DE">>},
     url             : Urls,
     description     : Descriptions]

-----------------------------------------------------------------------------
(* Field lists found in the channel: per title nothing, a field without a  *)
(* value, a field with a value, or two fields; and at most one more field  *)
(* with another title or none, first or last.                              *)

Slot(title, texts) ==
    {<<>>, <<Field(Some(title), None)>>}
        \cup { <<Field(Some(title), Some(t))>> : t \in texts }

StoredUrlTexts ==
    Bracketed({ <<"http", "s", ":", "/", "/", "x", "/">>,
                <<"ftp", ":", "/", "/", "x", "/">>,
                <<"x", ":", "s">>,
                <<"http", ":">>,
                <<"x">> })

StoredTimeTexts ==
    { to_string(n) : n \in {I16_MIN - 1, I16_MIN, -MaxHours, 0, MaxHours,
                            I16_MAX + 1} }
        \cup { <<"x">> }

Twice(title, a, b) == << Field(Some(title), Some(a)), Field(Some(title), Some(b)) >>

TimeSlot ==
    Slot("Time", StoredTimeTexts)
        \cup { Twice("Time", <<"x">>, <<"1">>), Twice("Time", <<"1">>, <<"x">>),
               << Field(Some("Time"), Some(<<"1">>)), Field(Some("Time"), None) >> }

AuthorSlot ==
    Slot("Author", {<<"alice">>}) \cup { Twice("Author", <<"bob">>, <<"alice">>) }

UrlSlot ==
    Slot("URL", StoredUrlTexts)
        \cup { Twice("URL", <<"x">>, <<"x", ":", "s">>),
               Twice("URL", <<"x", ":", "s">>, <<"x">>) }

Bogus == Field(Some("Bogus"), Some(<<"x">>))
BogusNoValue == Field(Some("Bogus"), None)
NoTitle == Field(None, Some(<<"x">>))

FieldLists ==
    LET bases == { a \o t \o o \o u \o d :
                     a \in AuthorSlot,
                     t \in TimeSlot,
                     o \in {<<>>, <<Field(Some("Office"), Some(<<"DE">>))>>},
                     u \in UrlSlot,
                     d \in {<<>>, <<Field(Some("Description"), Some(<<>>))>>} }
    IN  bases \cup { <<e>> \o b : e \in {Bogus, BogusNoValue}, b \in bases }
              \cup { Append(b, e) : e \in {Bogus, NoTitle}, b \in bases }

-----------------------------------------------------------------------------
(* The codec at work: an attachment is encoded for posting, and a field    *)
(* list, encoded here or found in the channel, is decoded.                 *)

\* no slash command in flight, and no form or store in play
NoCommand == requests = <<>>
NoForm == store = <<>> /\ modal = None /\ views = <<>> /\ submitted = <<>>

Idle ==
    /\ record = None /\ fields = None /\ decoded = None
    /\ submission = None /\ pc = "idle" /\ response = None
    /\ calls = <<>> /\ channel = <<>> /\ http = None
    /\ history = <<>> /\ idx = 0 /\ hours = EmptyMap /\ stats_pc = "idle"
    /\ summary = None
    /\ NoCommand /\ NoForm

InitCodec ==
    /\ \/ record \in { Some(a) : a \in Attachments } /\ fields = None
       \/ record = None /\ fields \in { Some(l) : l \in FieldLists }
    /\ decoded = None
    /\ submission = None /\ pc = "idle" /\ response = None
    /\ calls = <<>> /\ channel = <<>> /\ http = None
    /\ history = <<>> /\ idx = 0 /\ hours = EmptyMap /\ stats_pc = "idle"
    /\ summary = None
    /\ NoCommand /\ NoForm

\* fields: Some(attachment.into())
Encode ==
    /\ IsSome(record) /\ ~IsSome(fields)
    /\ fields' = Some(fields_from(Unwrap(record)))
    /\ UNCHANGED <<record, decoded, handler_vars, stats_vars, command_vars, form_vars>>

\* fields.try_into()
Decode ==
    /\ IsSome(fields) /\ ~IsSome(decoded)
    /\ decoded' = Some(try_from(Unwrap(fields)))
    /\ UNCHANGED <<record, fields, handler_vars, stats_vars, command_vars, form_vars>>

NextCodec == Encode \/ Decode

SpecCodec == InitCodec /\ [][NextCodec]_vars

-----------------------------------------------------------------------------
(* A view submission arrives and is handled. The gateway answers each call *)
(* with success or failure; the handler unwraps the answer, so a failure   *)
(* is a panic, which ends the handler without a response.                  *)

ViewState(number_of_hours, url, description, country) ==
    [number_of_hours |-> number_of_hours, url |-> url,
     description |-> description, country |-> country]

Submissions ==
    { [state |-> Some(ViewState(Some(h), Some(u), Some(<<>>), Some(<<"DE">>)))] :
        h \in NumberTexts, u \in UrlTexts }
    \cup { [state |-> Some(ViewState(h, u, d, c))] :
             h \in {None, Some(<<"1">>)},
             u \in {None, Some(<<"x">>)},
             d \in {None, Some(<<"fix">>)},
             c \in {None, Some(<<"US">>)} }
    \cup { [state |-> None] }

InitHandler ==
    /\ submission \in { Some(e) : e \in Submissions }
    /\ pc = "start" /\ response = None /\ calls = <<>> /\ channel = <<>>
    /\ http = None
    /\ record = None /\ fields = None /\ decoded = None
    /\ history = <<>> /\ idx = 0 /\ hours = EmptyMap /\ stats_pc = "idle"
    /\ summary = None
    /\ NoCommand /\ NoForm

\* Validate as a bug would have it: the user is looked up before the checks
Validate_lookup_first ==
    /\ pc = "start"
    /\ LET checked == validate(Unwrap(submission))
       IN  /\ calls' = Append(calls, "users_info")
           /\ IF checked.ok
              THEN pc' = "users_info" /\ response' = response
              ELSE pc' = "done" /\ response' = Some(checked)
    /\ UNCHANGED <<submission, channel, http, codec_vars, stats_vars,
                   command_vars, form_vars>>

\* lines 134-174: the state, the four values, the four checks, and the
\* users_info request
Validate ==
    /\ pc = "start"
    /\ LET checked == validate(Unwrap(submission))
       IN  IF checked.ok
           THEN /\ pc' = "users_info"
                /\ calls' = Append(calls, "users_info")
                /\ response' = response
           ELSE /\ pc' = "done"
                /\ response' = Some(checked)
                /\ calls' = calls
    /\ UNCHANGED <<submission, channel, http, codec_vars, stats_vars,
                   command_vars, form_vars>>

\* lines 174-220: users_info answers; without a user name the handler
\* returns an error, with one it builds the record and posts the message
UsersInfoReturns ==
    /\ pc = "users_info"
    /\ \E res \in {Err("gateway")} \cup { Ok([name |-> n]) : n \in {None} \cup { Some(u) : u \in Usernames } } :
        IF ~res.ok
        THEN /\ pc' = "panicked"
             /\ UNCHANGED <<response, calls, record>>
        ELSE IF ~IsSome(res.value.name)
        THEN /\ pc' = "done"
             /\ response' = Some(Err(from_anyhow(Error(
                    "The user information did not contain a username", <<>>))))
             /\ UNCHANGED <<calls, record>>
        ELSE LET checked == validate(Unwrap(submission)).value
             IN  /\ record' = Some([username        |-> Unwrap(res.value.name),
                                    number_of_hours |-> checked.parsed_hours,
                                    country         |-> checked.country,
                                    url             |-> checked.parsed_url,
                                    description     |-> checked.description])
                 /\ calls' = Append(calls, "chat_post_message")
                 /\ pc' = "chat_post_message"
                 /\ response' = response
    /\ UNCHANGED <<submission, channel, http, fields, decoded, stats_vars,
                   command_vars, form_vars>>

\* lines 220-222: chat_post_message answers; the message is in the channel
\* when it succeeded
ChatPostMessageReturns ==
    /\ pc = "chat_post_message"
    /\ \/ /\ channel' = Append(channel, post_message(Unwrap(record)))
          /\ response' = Some(Ok(<<>>))
          /\ pc' = "done"
       \/ /\ pc' = "panicked"
          /\ UNCHANGED <<channel, response>>
    /\ UNCHANGED <<submission, calls, http, codec_vars, stats_vars,
                   command_vars, form_vars>>

\* the Result the handler returned is rendered as the HTTP response
Respond ==
    /\ pc = "done" /\ IsSome(response) /\ ~IsSome(http)
    /\ http' = Some(result_into_response(Unwrap(response)))
    /\ UNCHANGED <<submission, pc, response, calls, channel, codec_vars,
                   stats_vars, command_vars, form_vars>>

NextHandler == Validate \/ UsersInfoReturns \/ ChatPostMessageReturns \/ Respond

SpecHandler == InitHandler /\ [][NextHandler]_vars

-----------------------------------------------------------------------------
(* The stats command at work: the history is fetched, scanned message by   *)
(* message, and the totals are posted to the requester. An addition that   *)
(* leaves the i16 range panics in a build with overflow checks and wraps   *)
(* in one without; a failed gateway call is unwrapped, and panics.         *)

\* most messages the history holds
MaxMessages == 2

Attachment(username, number_of_hours) ==
    [fields |-> Some(fields_from(
        [username        |-> username,
         number_of_hours |-> number_of_hours,
         country         |-> <<"DE">>,
         url             |-> [scheme |-> <<"http", "s">>, host |-> Some(<<"x">>),
                              path |-> <<"/">>],
         description     |-> <<>>]))]

\* decodable attachments, one without Time, and one without a field list
StoredAttachments ==
    { Attachment(<<"alice">>, I16_MAX), Attachment(<<"alice">>, 1),
      Attachment(<<"bob">>, MaxHours),
      [fields |-> Some(<< Field(Some("Author"), Some(<<"alice">>)) >>)],
      [fields |-> None] }

\* attachments that fail to decode for the other causes: hours that do not
\* parse, a url that does not parse, and a title that is not known
BrokenAttachments ==
    LET good == Unwrap(Attachment(<<"alice">>, 1).fields)
    IN  { [fields |-> Some([good EXCEPT ![2] = Field(Some("Time"), Some(<<"x">>))])],
          [fields |-> Some([good EXCEPT ![4] = Field(Some("URL"), Some(<<"x">>))])],
          [fields |-> Some(Append(good, Bogus))] }

Messages ==
    { [attachments |-> None], [attachments |-> Some(<<>>)] }
        \cup { [attachments |-> Some(<<a>>)] : a \in StoredAttachments }
        \cup { [attachments |-> Some(<<a, b>>)] : a, b \in StoredAttachments }
        \cup { [attachments |-> Some(<<a, Attachment(<<"alice">>, 1)>>)] :
                 a \in BrokenAttachments }

Histories == UNION { [1..n -> Messages] : n \in 0..MaxMessages }

InitStats ==
    /\ stats_pc = "conversations_history"
    /\ history = <<>> /\ idx = 0 /\ hours = EmptyMap /\ summary = None
    /\ NoCommand /\ NoForm
    /\ record = None /\ fields = None /\ decoded = None
    /\ submission = None /\ pc = "idle" /\ response = None
    /\ calls = <<>> /\ channel = <<>> /\ http = None

\* lines 90-96: conversations_history answers
HistoryReturns ==
    /\ stats_pc = "conversations_history"
    /\ \/ \E messages \in Histories :
            /\ history' = messages
            /\ stats_pc' = "scan"
       \/ /\ stats_pc' = "panicked"
          /\ history' = history
    /\ UNCHANGED <<idx, hours, summary, codec_vars, handler_vars,
                   command_vars, form_vars>>

\* lines 98-123: one message of the history
ScanMessage ==
    /\ stats_pc = "scan" /\ idx < Len(history)
    /\ LET scanned == scan_message(hours, history[idx + 1])
       IN  \/ /\ hours' = scanned.hours
              /\ idx' = idx + 1
              /\ stats_pc' = stats_pc
           \/ /\ scanned.overflowed
              /\ stats_pc' = "panicked"
              /\ UNCHANGED <<hours, idx>>
    /\ UNCHANGED <<history, summary, codec_vars, handler_vars,
                   command_vars, form_vars>>

\* lines 125-138: the totals are posted with chat_post_ephemeral
PostSummary ==
    /\ stats_pc = "scan" /\ idx = Len(history)
    /\ \/ /\ summary' = Some(hours)
          /\ stats_pc' = "done"
       \/ /\ stats_pc' = "panicked"
          /\ summary' = summary
    /\ UNCHANGED <<history, idx, hours, codec_vars, handler_vars,
                   command_vars, form_vars>>

NextStats == HistoryReturns \/ ScanMessage \/ PostSummary

SpecStats == InitStats /\ [][NextStats]_vars

-----------------------------------------------------------------------------
(* request_handlers.rs: command_event_handler. The handler answers at once *)
(* and leaves the gateway calls to a task it spawns and never joins; a     *)
(* panic of the task (an unwrapped gateway failure, an overflow) ends the  *)
(* task alone.                                                             *)

\* most slash commands in flight at once
MaxRequests == 2

\* the phrases of LOADING_MESSAGES
LoadingMessages == {"", "Reticulating splines"}

\* loading_message(), for the phrase it drew
loading_message(message) ==
    [text          |-> <<"Please wait... ", message, "...">>,
     response_type |-> Some("Ephemeral")]

\* SlackCommandEventResponse::new(..with_text("TODO: Usage information"))
usage_message == [text |-> <<"TODO: Usage information">>, response_type |-> None]

\* command_event_handler as a bug would have it: every text that begins
\* with "stats" runs the aggregation
command_event_handler_prefix(event, message) ==
    IF event.command # "/woss"
    THEN [response |-> Err(from_anyhow(Error("Unknown command", <<event.command>>))),
          spawned  |-> None]
    ELSE IF event.text \in {Some("stats"), Some("stats "), Some("stats x")}
    THEN [response |-> Ok(loading_message(message)),
          spawned  |-> Some("report_user_stats")]
    ELSE IF IsSome(event.text)
    THEN [response |-> Ok(loading_message(message)),
          spawned  |-> Some("open_oss_modal")]
    ELSE [response |-> Ok(usage_message), spawned |-> None]

\* command_event_handler(event): what it returns, and the task it spawned
command_event_handler(event, message) ==
    IF event.command # "/woss"
    THEN [response |-> Err(from_anyhow(Error("Unknown command", <<event.command>>))),
          spawned  |-> None]
    ELSE IF event.text = Some("stats")
    THEN [response |-> Ok(loading_message(message)),
          spawned  |-> Some("report_user_stats")]
    ELSE IF IsSome(event.text)
    THEN [response |-> Ok(loading_message(message)),
          spawned  |-> Some("open_oss_modal")]
    ELSE [response |-> Ok(usage_message), spawned |-> None]

\* the first gateway call of a spawned task
first_call(spawned) ==
    IF spawned = Some("report_user_stats") THEN "conversations_history"
    ELSE IF spawned = Some("open_oss_modal") THEN "views_open"
    ELSE "none"

\* a panic in a task as a bug would have it: the request is answered with
\* the failure
task_failed_surfaced(request) ==
    [request EXCEPT !.task = "panicked",
                    !.response = Some(Err(from_anyhow(Error("task failed", <<>>))))]

\* a panic in a task spawned with tokio::spawn, its JoinHandle dropped: the
\* task ends
task_failed(request) == [request EXCEPT !.task = "panicked"]

\* the loop of report_user_stats over a whole history
RECURSIVE aggregate(_, _, _, _)
aggregate(messages, i, map, overflowed) ==
    IF i > Len(messages) THEN [hours |-> map, overflowed |-> overflowed]
    ELSE LET scanned == scan_message(map, messages[i])
         IN  aggregate(messages, i + 1, scanned.hours,
                       overflowed \/ scanned.overflowed)

CommandTexts ==
    {None, Some(""), Some("stats"), Some("stats "), Some("Stats"), Some("x")}

CommandEvents ==
    { [command |-> "/woss", text |-> t] : t \in CommandTexts }
        \cup { [command |-> "/other", text |-> Some("stats")] }

\* what the channel holds when a stats task fetches it
CommandHistories ==
    { <<>>,
      << [attachments |-> Some(<<Attachment(<<"alice">>, 1)>>)] >>,
      << [attachments |-> Some(<<Attachment(<<"alice">>, I16_MAX),
                                 Attachment(<<"alice">>, 1)>>)] >> }

Request(event) ==
    [event |-> event, response |-> None, spawned |-> None, task |-> "none",
     calls |-> <<>>, posted |-> None]

InitCommand ==
    /\ requests \in UNION { [1..n -> { Request(e) : e \in CommandEvents }] :
                              n \in 1..MaxRequests }
    /\ record = None /\ fields = None /\ decoded = None
    /\ submission = None /\ pc = "idle" /\ response = None
    /\ calls = <<>> /\ channel = <<>> /\ http = None
    /\ history = <<>> /\ idx = 0 /\ hours = EmptyMap /\ stats_pc = "idle"
    /\ summary = None
    /\ NoForm

\* lines 68-100: the handler runs from its entry to its return
CommandEvent ==
    \E r \in DOMAIN requests, message \in LoadingMessages :
        /\ ~IsSome(requests[r].response)
        /\ LET out == command_event_handler(requests[r].event, message)
           IN  requests' = [requests EXCEPT ![r] =
                              [@ EXCEPT !.response = Some(out.response),
                                        !.spawned = out.spawned,
                                        !.task = first_call(out.spawned)]]
        /\ UNCHANGED <<codec_vars, handler_vars, stats_vars, form_vars>>

\* slack.rs 90-123: conversations_history answers a stats task, which then
\* aggregates the history
StatsHistoryReturns ==
    \E r \in DOMAIN requests :
        /\ requests[r].task = "conversations_history"
        /\ LET called == [requests[r] EXCEPT
                            !.calls = Append(@, "conversations_history")]
           IN  \/ requests' = [requests EXCEPT ![r] = task_failed(called)]
               \/ \E messages \in CommandHistories :
                    LET aggregated == aggregate(messages, 1, EmptyMap, FALSE)
                    IN  \/ requests' = [requests EXCEPT ![r] =
                              [called EXCEPT !.task = "chat_post_ephemeral",
                                             !.posted = Some(aggregated.hours)]]
                        \/ /\ aggregated.overflowed
                           /\ requests' = [requests EXCEPT ![r] = task_failed(called)]
        /\ UNCHANGED <<codec_vars, handler_vars, stats_vars, form_vars>>

\* slack.rs 125-138: chat_post_ephemeral answers a stats task
StatsPostReturns ==
    \E r \in DOMAIN requests :
        /\ requests[r].task = "chat_post_ephemeral"
        /\ LET called == [requests[r] EXCEPT
                            !.calls = Append(@, "chat_post_ephemeral")]
           IN  \/ requests' = [requests EXCEPT ![r] = [called EXCEPT !.task = "done"]]
               \/ requests' = [requests EXCEPT ![r] = task_failed(called)]
        /\ UNCHANGED <<codec_vars, handler_vars, stats_vars, form_vars>>

\* slack.rs 68-75: views_open answers a form task
ViewsOpenReturns ==
    \E r \in DOMAIN requests :
        /\ requests[r].task = "views_open"
        /\ LET called == [requests[r] EXCEPT !.calls = Append(@, "views_open")]
           IN  \/ requests' = [requests EXCEPT ![r] = [called EXCEPT !.task = "done"]]
               \/ requests' = [requests EXCEPT ![r] = task_failed(called)]
        /\ UNCHANGED <<codec_vars, handler_vars, stats_vars, form_vars>>

NextCommand ==
    CommandEvent \/ StatsHistoryReturns \/ StatsPostReturns \/ ViewsOpenReturns

SpecCommand == InitCommand /\ [][NextCommand]_vars

-----------------------------------------------------------------------------
(* slack.rs: open_oss_modal, and persistence.rs: the default country of a  *)
(* user in the key-value store. The store is keyed by the user id; a call  *)
(* finds it reachable or not.                                              *)

UserIds == {"U1", "U2"}

\* the options of the country select of the modal: a text and a value each
CountryOptions ==
    << [text |-> "Germany", value |-> <<"DE">>],
       [text |-> "United States", value |-> <<"US">>] >>

\* RECORD_HOURS_MODAL, as far as open_oss_modal looks into it: the block
\* with id "country", a static select with its options, and an initial
\* option or none
Modals ==
    { [country |-> [kind           |-> "static_select",
                    options        |-> Some(CountryOptions),
                    initial_option |-> initial]] :
        initial \in {None} \cup { Some(CountryOptions[k]) :
                                     k \in 1..Len(CountryOptions) } }

\* options.iter().find(|opt| opt.value == default_country)
RECURSIVE find(_, _, _)
find(options, i, value) ==
    IF i > Len(options) THEN None
    ELSE IF options[i].value = value THEN Some(options[i])
    ELSE find(options, i + 1, value)

\* open_oss_modal as a bug would have it: a default that matches no option
\* leaves the initial option of the modal as it was
open_oss_modal_keeps_initial(view, default_country) ==
    IF ~IsSome(default_country) THEN view
    ELSE IF view.country.kind = "static_select" /\ IsSome(view.country.options)
    THEN LET preselected == find(Unwrap(view.country.options), 1,
                                 Unwrap(default_country))
         IN  IF IsSome(preselected)
             THEN [view EXCEPT !.country.initial_option = preselected]
             ELSE view
    ELSE view

\* open_oss_modal, lines 41-71: the view handed to views_open
open_oss_modal(view, default_country) ==
    IF ~IsSome(default_country) THEN view
    ELSE IF view.country.kind = "static_select" /\ IsSome(view.country.options)
    THEN [view EXCEPT !.country.initial_option =
            find(Unwrap(view.country.options), 1, Unwrap(default_country))]
    ELSE view

\* Persistence::get_default_country: None without a connection, and None
\* when the key holds no string
get_default_country(kv, reachable, user_id) ==
    IF ~reachable THEN None
    ELSE IF user_id \in DOMAIN kv THEN Some(kv[user_id])
    ELSE None

\* set_default_country as a bug would have it: the value is not written
set_default_country_dropped(kv, reachable, user_id, country) ==
    IF ~reachable
    THEN [result |-> Err(from_anyhow(Error("redis", <<>>))), store |-> kv]
    ELSE [result |-> Ok(<<>>), store |-> kv]

\* Persistence::set_default_country: its result, and the store after it
set_default_country(kv, reachable, user_id, country) ==
    IF ~reachable
    THEN [result |-> Err(from_anyhow(Error("redis", <<>>))), store |-> kv]
    ELSE [result |-> Ok(<<>>),
          store  |-> [k \in DOMAIN kv \cup {user_id} |->
                        IF k = user_id THEN country ELSE kv[k]]]

\* what the store holds at the start: nothing for a user, a country of the
\* select, or one that is no longer among its options
Stores ==
    UNION { [keys -> {<<"DE">>, <<"FR">>}] : keys \in SUBSET UserIds }

InitForm ==
    /\ store \in Stores
    /\ modal \in { Some(m) : m \in Modals }
    /\ views = [u \in UserIds |-> None]
    /\ submitted = [u \in UserIds |-> None]
    /\ record = None /\ fields = None /\ decoded = None
    /\ submission = None /\ pc = "idle" /\ response = None
    /\ calls = <<>> /\ channel = <<>> /\ http = None
    /\ history = <<>> /\ idx = 0 /\ hours = EmptyMap /\ stats_pc = "idle"
    /\ summary = None
    /\ NoCommand

\* a form is asked for, by the slash command or by the shortcut: the
\* default country of the user is read from the store (the Form Presenter
\* of the specification; the handlers at hand call open_oss_modal without a
\* default)
GetDefaultCountry ==
    \E u \in UserIds, via \in {"command", "shortcut"}, reachable \in BOOLEAN :
        /\ views' = [views EXCEPT ![u] =
                        Some([via     |-> via,
                              default |-> get_default_country(store, reachable, u),
                              reached |-> reachable,
                              view    |-> None])]
        /\ UNCHANGED <<store, modal, submitted, codec_vars, handler_vars,
                       stats_vars, command_vars>>

\* open_oss_modal with that default: the view is built and views_open
\* shows it, or fails, and then no form is shown
OpenOssModal ==
    \E u \in UserIds :
        /\ IsSome(views[u]) /\ ~IsSome(Unwrap(views[u]).view)
        /\ LET asked == Unwrap(views[u])
               view  == open_oss_modal(Unwrap(modal), asked.default)
           IN  \/ views' = [views EXCEPT ![u] =
                               Some([asked EXCEPT !.view = Some(view)])]
               \/ views' = [views EXCEPT ![u] = None]
        /\ UNCHANGED <<store, modal, submitted, codec_vars, handler_vars,
                       stats_vars, command_vars>>

\* the user submits the form shown to them with one of its countries, and
\* the country is stored as their default (as the specification has it: the
\* last country a user selected is remembered)
SubmitForm ==
    \E u \in UserIds, reachable \in BOOLEAN :
        /\ IsSome(views[u]) /\ IsSome(Unwrap(views[u]).view)
        /\ LET options == Unwrap(Unwrap(Unwrap(views[u]).view).country.options)
           IN  \E k \in 1..Len(options) :
                 LET out == set_default_country(store, reachable, u,
                                                options[k].value)
                 IN  /\ store' = out.store
                     /\ submitted' = [submitted EXCEPT ![u] =
                            Some([country |-> options[k].value,
                                  stored  |-> out.result.ok])]
        /\ views' = [views EXCEPT ![u] = None]
        /\ UNCHANGED <<modal, codec_vars, handler_vars, stats_vars,
                       command_vars>>

NextForm == GetDefaultCountry \/ OpenOssModal \/ SubmitForm

SpecForm == InitForm /\ [][NextForm]_vars

-----------------------------------------------------------------------------
(* What the codec claims speak of *)

Recognized == {"Author", "Time", "Office", "URL", "Description"}
HttpSchemes == {<<"http">>, <<"http", "s">>}

\* the fields of list that carry this title and a value, in order
Valued(list, title) ==
    SelectSeq(list, LAMBDA f : f.title = Some(title) /\ IsSome(f.value))

Populated(list, title) == Valued(list, title) # <<>>

\* the value of the last field of list that carries this title and a value
LastText(list, title) ==
    Unwrap(Valued(list, title)[Len(Valued(list, title))].value)

\* some field carries a value under a title that is not recognized
UnknownValued(list) ==
    \E i \in 1..Len(list) :
        /\ IsSome(list[i].title) /\ IsSome(list[i].value)
        /\ Unwrap(list[i].title) \notin Recognized

\* some field carries a title that is not recognized, with a value or not
UnknownTitled(list) ==
    \E i \in 1..Len(list) :
        IsSome(list[i].title) /\ Unwrap(list[i].title) \notin Recognized

\* a decimal integer: an optional sign, then one digit or more
IsIntegerText(text) ==
    LET body == IF text # <<>> /\ text[1] \in {"+", "-"} THEN Tail(text) ELSE text
    IN  body # <<>> /\ \A i \in 1..Len(body) : body[i] \in DOMAIN Digit

\* the integer a decimal text denotes, of any size
RECURSIVE NaturalValue(_)
NaturalValue(body) ==
    IF body = <<>> THEN 0
    ELSE NaturalValue(Take(body, Len(body) - 1)) * 10 + Digit[body[Len(body)]]

IntegerValue(text) ==
    IF text[1] = "-" THEN -NaturalValue(Tail(text))
    ELSE IF text[1] = "+" THEN NaturalValue(Tail(text))
    ELSE NaturalValue(text)

\* text without its leading '<'s and trailing '>'s
Core(text) ==
    LET first == IF \E i \in 1..Len(text) : text[i] # "<"
                 THEN CHOOSE i \in 1..Len(text) :
                        text[i] # "<" /\ \A j \in 1..(i - 1) : text[j] = "<"
                 ELSE Len(text) + 1
        rest  == SubSeq(text, first, Len(text))
        last  == IF \E i \in 1..Len(rest) : rest[i] # ">"
                 THEN CHOOSE i \in 1..Len(rest) :
                        rest[i] # ">" /\ \A j \in (i + 1)..Len(rest) : rest[j] = ">"
                 ELSE 0
    IN  SubSeq(rest, 1, last)

\* text without one leading '<', if it has one, and one trailing '>', if any
StripOne(text) ==
    LET rest == IF text # <<>> /\ text[1] = "<" THEN Tail(text) ELSE text
    IN  IF rest # <<>> /\ rest[Len(rest)] = ">" THEN Take(rest, Len(rest) - 1)
        ELSE rest

\* the other four titles each carry a value that decodes, and no field
\* stops the scan
CompleteBut(list, title) ==
    /\ ~UnknownValued(list)
    /\ \A t \in Recognized \ {title} : Populated(list, t)
    /\ "Time" # title => parse_i16(LastText(list, "Time")).ok
    /\ "URL" # title => url_parse(Core(LastText(list, "URL"))).ok

Decoded == Unwrap(decoded)
Encoded == Unwrap(fields)

ValidRecord(r) == r.number_of_hours > 0 /\ r.url.scheme \in HttpSchemes

-----------------------------------------------------------------------------
(* Claims about the field codec, checked under SpecCodec *)

\* C1: decoding the field list produced by encoding a valid record (hours
\* > 0, an http or https url, any username and description) succeeds and
\* yields a record equal to it in all five fields.
C1_RoundTrip ==
    (IsSome(record) /\ IsSome(decoded) /\ ValidRecord(Unwrap(record)))
        => /\ Decoded.ok
           /\ Decoded.value.username = Unwrap(record).username
           /\ Decoded.value.number_of_hours = Unwrap(record).number_of_hours
           /\ Decoded.value.country = Unwrap(record).country
           /\ Decoded.value.url = Unwrap(record).url
           /\ Decoded.value.description = Unwrap(record).description

\* a valid record with the largest hours, an escaped '>' ending its url and
\* the empty description has gone through encode and decode
C1_Witness ==
    /\ IsSome(record) /\ IsSome(decoded) /\ ValidRecord(Unwrap(record))
    /\ Unwrap(record).number_of_hours = I16_MAX
    /\ Unwrap(record).description = <<>>
    /\ Unwrap(record).url.path = <<"/", "%3E">>
    /\ Decoded.ok

\* C6 as claimed: a field list holding any field whose title is not one of
\* the five recognized titles never decodes, whatever else the field carries.
C6_AnyUnknownTitleFails ==
    (IsSome(fields) /\ IsSome(decoded) /\ UnknownTitled(Encoded))
        => ~Decoded.ok

\* C6 amended: a field list holding a field that carries a value under a
\* title that is not recognized never decodes (the error is "unknown field
\* name"), whether or not the five required fields are present and valid.
C6_UnknownValuedTitleFails ==
    (IsSome(fields) /\ IsSome(decoded) /\ UnknownValued(Encoded))
        => ~Decoded.ok /\ Decoded.error.msg = "unknown field name"

\* a list whose five required fields are present and valid, followed by a
\* field titled "Bogus" with a value, has failed to decode
C6_Witness ==
    /\ IsSome(fields) /\ IsSome(decoded)
    /\ Len(Encoded) = 6 /\ Encoded[6] = Bogus
    /\ try_from(Take(Encoded, 5)).ok
    /\ ~Decoded.ok

\* the order in which try_from takes the five slots out, and what each
\* reports when it was never assigned
Order == <<"Author", "Time", "Office", "URL", "Description">>
MissingMessage ==
    <<"missing username", "missing number of hours", "missing country",
      "missing url", "missing description">>

SomeMissing(list) == \E i \in 1..5 : ~Populated(list, Order[i])

FirstMissing(list) ==
    CHOOSE i \in 1..5 :
        /\ ~Populated(list, Order[i])
        /\ \A j \in 1..(i - 1) : Populated(list, Order[j])

\* the title carries a value, and the last one does not parse
ParseFails(list, title) ==
    /\ Populated(list, title)
    /\ \/ title = "Time" /\ ~parse_i16(LastText(list, "Time")).ok
       \/ title = "URL" /\ ~url_parse(Core(LastText(list, "URL"))).ok

FirstBad(list) ==
    CHOOSE i \in 1..5 :
        /\ ~Populated(list, Order[i]) \/ ParseFails(list, Order[i])
        /\ \A j \in 1..(i - 1) :
              Populated(list, Order[j]) /\ ~ParseFails(list, Order[j])

\* C7 as claimed: a field list with only recognized titles in which a
\* required field is never populated fails to decode, and the error names
\* the first unpopulated field in the order username, hours, country, url,
\* description.
C7_NamesFirstMissing ==
    (IsSome(fields) /\ IsSome(decoded) /\ ~UnknownTitled(Encoded)
        /\ SomeMissing(Encoded))
        => /\ ~Decoded.ok
           /\ Decoded.error.msg = MissingMessage[FirstMissing(Encoded)]

\* C7 amended: such a field list fails to decode, and the error is that of
\* the first field, in the order username, hours, country, url, description,
\* that is unpopulated or whose last value did not parse: it names the first
\* unpopulated field unless an hours or url value before it in that order
\* did not parse, and is then that parse failure with the offending text.
C7_ReportsFirstBadField ==
    (IsSome(fields) /\ IsSome(decoded) /\ ~UnknownTitled(Encoded)
        /\ SomeMissing(Encoded))
        => /\ ~Decoded.ok
           /\ LET b == FirstBad(Encoded)
              IN  IF b = FirstMissing(Encoded)
                  THEN Decoded.error = Error(MissingMessage[b], <<>>)
                  ELSE /\ Decoded.error.context = LastText(Encoded, Order[b])
                       /\ \A i \in 1..5 : Decoded.error.msg # MissingMessage[i]

\* a list without Office and without Description, its Author, Time and URL
\* valid, has failed to decode with "missing country"
C7_Witness ==
    /\ IsSome(fields) /\ IsSome(decoded) /\ ~UnknownTitled(Encoded)
    /\ Populated(Encoded, "Author") /\ Populated(Encoded, "Time")
    /\ Populated(Encoded, "URL")
    /\ ~ParseFails(Encoded, "Time") /\ ~ParseFails(Encoded, "URL")
    /\ ~Populated(Encoded, "Office") /\ ~Populated(Encoded, "Description")
    /\ ~Decoded.ok /\ Decoded.error.msg = "missing country"

\* the list holds exactly one URL field with a value, and is complete and
\* valid in its other four fields
OneUrl(list) == Len(Valued(list, "URL")) = 1 /\ CompleteBut(list, "URL")

\* decoding ended as parsing this text in the place of the URL value would
DecodesUrlAs(text) ==
    LET r == url_parse(text)
    IN  /\ Decoded.ok = r.ok
        /\ r.ok => Decoded.value.url = r.value

\* C8 as claimed: exactly one leading '<' and exactly one trailing '>' are
\* removed from a "URL" value before it is parsed; further brackets stay.
C8_StripsOneBracket ==
    (IsSome(fields) /\ IsSome(decoded) /\ OneUrl(Encoded))
        => DecodesUrlAs(StripOne(LastText(Encoded, "URL")))

\* C8 amended: every leading '<' and every trailing '>' is removed from a
\* "URL" value before it is parsed: "<https://x/>" decodes to https://x/,
\* and so does the same URL inside two or more brackets on either side.
C8_StripsAllBrackets ==
    (IsSome(fields) /\ IsSome(decoded) /\ OneUrl(Encoded))
        => DecodesUrlAs(Core(LastText(Encoded, "URL")))

\* "<<https://x/>>" has been decoded, to https://x/
C8_Witness ==
    /\ IsSome(fields) /\ IsSome(decoded) /\ OneUrl(Encoded)
    /\ LastText(Encoded, "URL") =
          <<"<", "<", "http", "s", ":", "/", "/", "x", "/", ">", ">">>
    /\ Decoded.ok
    /\ Decoded.value.url =
          [scheme |-> <<"http", "s">>, host |-> Some(<<"x">>), path |-> <<"/">>]

\* the list is complete, with one Time and one URL value
Complete(list) ==
    /\ ~UnknownValued(list)
    /\ \A t \in Recognized : Populated(list, t)

\* C9 as claimed: a complete field list decodes to a record carrying the
\* values unchanged when its Time value is an integer <= 0 (the URL being
\* valid) or its URL parses with a scheme other than http(s) (the Time being
\* valid).
C9_DecodesAnyNonPositive ==
    (IsSome(fields) /\ IsSome(decoded) /\ Complete(Encoded))
        => LET time == LastText(Encoded, "Time")
               url  == url_parse(Core(LastText(Encoded, "URL")))
           IN  /\ (IsIntegerText(time) /\ IntegerValue(time) <= 0 /\ url.ok)
                    => /\ Decoded.ok
                       /\ Decoded.value.number_of_hours = IntegerValue(time)
               /\ (parse_i16(time).ok /\ url.ok
                       /\ url.value.scheme \notin HttpSchemes)
                    => Decoded.ok /\ Decoded.value.url = url.value

\* C9 amended: the same, for a Time value that is an integer of the signed
\* 16-bit range, -32768 <= n <= 0 (a smaller integer does not parse and the
\* list does not decode).
C9_DecodesNonPositiveI16 ==
    (IsSome(fields) /\ IsSome(decoded) /\ Complete(Encoded))
        => LET time == LastText(Encoded, "Time")
               url  == url_parse(Core(LastText(Encoded, "URL")))
           IN  /\ (IsIntegerText(time) /\ IntegerValue(time) <= 0
                       /\ IntegerValue(time) >= I16_MIN /\ url.ok)
                    => /\ Decoded.ok
                       /\ Decoded.value.number_of_hours = IntegerValue(time)
                       /\ Decoded.value.url = url.value
               /\ (parse_i16(time).ok /\ url.ok
                       /\ url.value.scheme \notin HttpSchemes)
                    => /\ Decoded.ok
                       /\ Decoded.value.url = url.value
                       /\ Decoded.value.number_of_hours = parse_i16(time).value

\* a complete list with Time "-32768" and URL ftp://x/ has decoded to a
\* record with those hours and that scheme
C9_Witness ==
    /\ IsSome(fields) /\ IsSome(decoded) /\ Complete(Encoded)
    /\ LastText(Encoded, "Time") = <<"-", "3", "2", "7", "6", "8">>
    /\ Decoded.ok
    /\ Decoded.value.number_of_hours = I16_MIN
    /\ Decoded.value.url.scheme = <<"ftp">>

\* some recognized title occurs more than once in the list
Repeated(list) ==
    \E t \in Recognized :
        Cardinality({ i \in 1..Len(list) : list[i].title = Some(t) }) > 1

\* C19: when a recognized title occurs more than once in a field list, the
\* last occurrence that carries a value alone determines that field of the
\* record: the list decodes exactly when the last value of every title is
\* there and parses, to a record made of those last values. A later valid
\* "Time" or "URL" overrides an earlier one that does not parse, and a later
\* one that does not parse makes decoding fail after an earlier valid one.
C19_LastOccurrenceDecides ==
    (IsSome(fields) /\ IsSome(decoded) /\ ~UnknownValued(Encoded)
        /\ Repeated(Encoded))
        => /\ Decoded.ok <=>
                (/\ \A t \in Recognized : Populated(Encoded, t)
                 /\ parse_i16(LastText(Encoded, "Time")).ok
                 /\ url_parse(Core(LastText(Encoded, "URL"))).ok)
           /\ Decoded.ok =>
                Decoded.value =
                    [username        |-> LastText(Encoded, "Author"),
                     number_of_hours |-> parse_i16(LastText(Encoded, "Time")).value,
                     country         |-> LastText(Encoded, "Office"),
                     url             |-> url_parse(Core(LastText(Encoded, "URL"))).value,
                     description     |-> LastText(Encoded, "Description")]

\* a list with Time "x" then Time "1" and URL "x" then URL "x:s", complete
\* in its other fields, has decoded to one hour and the url x:s
C19_Witness ==
    /\ IsSome(fields) /\ IsSome(decoded)
    /\ Valued(Encoded, "Time") = Twice("Time", <<"x">>, <<"1">>)
    /\ Valued(Encoded, "URL") = Twice("URL", <<"x">>, <<"x", ":", "s">>)
    /\ Decoded.ok
    /\ Decoded.value.number_of_hours = 1
    /\ Decoded.value.url = [scheme |-> <<"x">>, host |-> None, path |-> <<"s">>]

-----------------------------------------------------------------------------
(* Claims about the submission validator, checked under SpecHandler *)

\* the submission carries all four values
FullSubmission ==
    /\ IsSome(submission) /\ IsSome(Unwrap(submission).state)
    /\ \A name \in {"number_of_hours", "url", "description", "country"} :
          IsSome(Unwrap(Unwrap(submission).state)[name])

SubmittedHours == Unwrap(Unwrap(Unwrap(submission).state).number_of_hours)
SubmittedUrl == Unwrap(Unwrap(Unwrap(submission).state).url)

\* the handler is past its checks
Validated == pc # "start" /\ pc # "idle"

Failed == IsSome(response) /\ ~Unwrap(response).ok

FailedWith(error) == Failed /\ Unwrap(response).error = error

FailedOnField(field_name) ==
    /\ Failed
    /\ Unwrap(response).error.kind = "InputValidationError"
    /\ Unwrap(response).error.field_name = field_name

\* the handler ended at one of its two checks of the hours
HoursRejected ==
    \/ FailedOnField("number_of_hours")
    \/ /\ Failed
       /\ Unwrap(response).error.kind = "InternalServerError"
       /\ Unwrap(response).error.inner.msg = "number_of_hours is not an i16"

HoursValid == parse_i16(SubmittedHours).ok /\ parse_i16(SubmittedHours).value > 0

\* C2: when the submitted number_of_hours is no signed integer, the handler
\* answers InputValidation(number_of_hours, "not a valid integer"), never an
\* internal error.
C2_UnparsableHoursIsInputValidation ==
    (Validated /\ FullSubmission /\ ~IsIntegerText(SubmittedHours))
        => FailedWith(InputValidationError("number_of_hours",
                                           "not a valid integer"))

\* C3 as claimed: for every integer n submitted as number_of_hours, n <= 0
\* is rejected with InputValidation(number_of_hours, "Number of hours must be
\* greater than 0") and n > 0 passes the checks of the hours.
C3_EveryIntegerChecked ==
    (Validated /\ FullSubmission /\ IsIntegerText(SubmittedHours))
        => IF IntegerValue(SubmittedHours) <= 0
           THEN FailedWith(InputValidationError("number_of_hours",
                               "Number of hours must be greater than 0"))
           ELSE ~HoursRejected

\* C3 amended: the same for every integer n of the signed 16-bit range,
\* -32768 <= n <= 32767 (an integer outside it fails the parse step).
C3_EveryI16Checked ==
    (Validated /\ FullSubmission /\ IsIntegerText(SubmittedHours)
        /\ InI16(IntegerValue(SubmittedHours)))
        => IF IntegerValue(SubmittedHours) <= 0
           THEN FailedWith(InputValidationError("number_of_hours",
                               "Number of hours must be greater than 0"))
           ELSE ~HoursRejected

\* 32767 hours were submitted with a url that passed, and the handler
\* went on to ask for the user
C3_Witness ==
    /\ FullSubmission
    /\ SubmittedHours = <<"3", "2", "7", "6", "7">>
    /\ pc = "users_info"

\* C4: every record the handler constructs has a url whose scheme is
\* exactly http or https.
C4_RecordSchemeIsHttp ==
    (pc # "idle" /\ IsSome(record)) => Unwrap(record).url.scheme \in HttpSchemes

\* C5: the checks run in the order hours-parse, hours > 0, url-parse,
\* url-scheme and the first failing one decides the answer: invalid hours
\* are rejected with field number_of_hours whatever the url, and the two url
\* errors are reported only for valid hours.
C5_FirstFailingStepReported ==
    (Validated /\ FullSubmission)
        => /\ ~HoursValid => FailedOnField("number_of_hours")
           /\ FailedOnField("url") => HoursValid
           /\ (HoursValid /\ ~url_parse(SubmittedUrl).ok)
                 => FailedWith(InputValidationError("url", "Not a valid URL"))
           /\ (HoursValid /\ url_parse(SubmittedUrl).ok
                  /\ ~starts_with_http(url_parse(SubmittedUrl).value.scheme))
                 => FailedWith(InputValidationError("url",
                        "URL should point to an HTTP or HTTPS resource"))

Rendered == Unwrap(http)

\* C14: at the boundary every InputValidation error is rendered with status
\* 200 and an error map holding exactly the one entry field_name -> message,
\* and every Internal error with status 500 and the fixed generic message,
\* whatever the error behind it.
C14_ErrorsRendered ==
    (IsSome(http) /\ Failed)
        => LET error == Unwrap(response).error
           IN  IF error.kind = "InputValidationError"
               THEN /\ Rendered.status = 200
                    /\ Rendered.body.response_action = "errors"
                    /\ DOMAIN Rendered.body.errors = {error.field_name}
                    /\ Rendered.body.errors[error.field_name] = error.message
               ELSE /\ Rendered.status = 500
                    /\ Rendered.body =
                          [error |-> "Something went wrong. See logs for details."]

\* the internal error of hours "x" has been rendered: status 500 and the
\* generic message
C14_Witness ==
    /\ IsSome(http) /\ FullSubmission /\ SubmittedHours = <<"x">>
    /\ Failed /\ Unwrap(response).error.kind = "InternalServerError"
    /\ Unwrap(response).error.inner.msg = "number_of_hours is not an i16"
    /\ Rendered.status = 500

\* the handler ended with an error of field extraction or of validation
FailedBeforeLookup ==
    /\ Failed
    /\ \/ Unwrap(response).error.kind = "InputValidationError"
       \/ /\ Unwrap(response).error.kind = "InternalServerError"
          /\ Unwrap(response).error.inner.msg #
                "The user information did not contain a username"

\* C17: a message is posted to the channel only after the submission passed
\* every validation step and the username was resolved: when the handler ends
\* with an error of field extraction or validation, no user lookup and no
\* post has been made; the post is requested only with a record in hand; and
\* a successful submission leaves exactly one post, with one attachment.
C17_PostOnlyAfterValidation ==
    /\ FailedBeforeLookup => calls = <<>> /\ channel = <<>>
    /\ ("chat_post_message" \in {calls[i] : i \in 1..Len(calls)} \/ channel # <<>>)
          => /\ FullSubmission /\ HoursValid
             /\ url_parse(SubmittedUrl).ok
             /\ starts_with_http(url_parse(SubmittedUrl).value.scheme)
             /\ IsSome(record) /\ Unwrap(record).username \in Usernames
             /\ calls = <<"users_info", "chat_post_message">>
    /\ (IsSome(response) /\ Unwrap(response).ok)
          => /\ Len(channel) = 1
             /\ Len(Unwrap(channel[1].attachments)) = 1
             /\ Unwrap(channel[1].attachments)[1].fields
                   = Some(fields_from(Unwrap(record)))
    /\ Len(channel) <= 1

\* a submission of one hour and https://x/ has succeeded: both calls were
\* made and the channel holds one message
C17_Witness ==
    /\ FullSubmission /\ SubmittedHours = <<"1">>
    /\ SubmittedUrl = <<"http", "s", ":", "/", "/", "x", "/">>
    /\ IsSome(response) /\ Unwrap(response).ok
    /\ calls = <<"users_info", "chat_post_message">>
    /\ Len(channel) = 1

-----------------------------------------------------------------------------
(* Claims about the aggregator, checked under SpecStats *)

\* the records that decode, over the messages and their attachments in order
RECURSIVE RecordsOf(_)
RecordsOf(messages) ==
    IF messages = <<>> THEN <<>>
    ELSE LET message == messages[Len(messages)]
             entries == IF IsSome(message.attachments)
                        THEN decode_entries(Unwrap(message.attachments))
                        ELSE <<>>
             oks     == SelectSeq(entries, LAMBDA e : e.ok)
         IN  RecordsOf(Take(messages, Len(messages) - 1))
                 \o [i \in 1..Len(oks) |-> oks[i].value]

\* the sum, in the integers, of the hours of the records of this user
RECURSIVE SumFor(_, _)
SumFor(records, username) ==
    IF records = <<>> THEN 0
    ELSE SumFor(Tail(records), username)
            + (IF records[1].username = username
               THEN records[1].number_of_hours ELSE 0)

Totals(messages) ==
    LET records == RecordsOf(messages)
    IN  [u \in { records[i].username : i \in 1..Len(records) } |->
            SumFor(records, u)]

\* C10: the posted mapping holds exactly the usernames with a decoded
\* record in the history, each with the arithmetic sum of the hours of its
\* records; an empty history gives the empty mapping.
C10_TotalsAreSums ==
    IsSome(summary)
        => /\ DOMAIN Unwrap(summary) = DOMAIN Totals(history)
           /\ \A u \in DOMAIN Unwrap(summary) :
                 Unwrap(summary)[u] = Totals(history)[u]

\* the message without the attachments that fail to decode
Decodable(message) ==
    IF ~IsSome(message.attachments) THEN message
    ELSE [attachments |->
            Some(SelectSeq(Unwrap(message.attachments),
                    LAMBDA a : IsSome(a.fields) /\ try_from(Unwrap(a.fields)).ok))]

\* some attachment of the history fails to decode
Undecodable(message) == Decodable(message) # message

\* the totals as i16 additions that wrap leave them
WrappedTotals(messages) ==
    LET totals == Totals(messages)
    IN  [u \in DOMAIN totals |-> wrapping_add(totals[u], 0)]

\* C11: an attachment whose field list fails to decode, for any cause,
\* leaves the running totals unchanged and never aborts the aggregation:
\* after each message the totals are those of the records that decoded so
\* far, every later attachment and message is processed, the aggregation
\* ends with the mapping posted, and when it stops at a message it is for an
\* addition of the records that do decode, never for an entry that does not.
C11_DecodeFailuresSkipped ==
    /\ stats_pc \in {"scan", "done"}
          => hours = WrappedTotals(Take(history, idx))
    /\ stats_pc = "done" => idx = Len(history) /\ summary = Some(hours)
    /\ (stats_pc = "panicked" /\ idx < Len(history))
          => scan_message(hours, Decodable(history[idx + 1])).overflowed

\* a history of two messages, the first with an attachment whose hours do
\* not parse before one of alice, the second with an attachment without
\* fields before one of bob, has been aggregated and posted
C11_Witness ==
    /\ stats_pc = "done" /\ Len(history) = 2
    /\ history[1] = [attachments |-> Some(<<
            [fields |-> Some([Unwrap(Attachment(<<"alice">>, 1).fields)
                                EXCEPT ![2] = Field(Some("Time"), Some(<<"x">>))])],
            Attachment(<<"alice">>, 1) >>)]
    /\ history[2] = [attachments |-> Some(<<
            [fields |-> None], Attachment(<<"bob">>, MaxHours) >>)]
    /\ Unwrap(summary) = [u \in {<<"alice">>, <<"bob">>} |->
                              IF u = <<"alice">> THEN 1 ELSE MaxHours]

\* C18: during the aggregation of any history the gateway returns, every
\* addition of a record's hours to a user's running total stays within the
\* signed 16-bit range, so no addition overflows.
C18_AdditionsStayInRange ==
    (stats_pc = "scan" /\ idx < Len(history))
        => ~scan_message(hours, history[idx + 1]).overflowed

-----------------------------------------------------------------------------
(* Claims about the slash command, checked under SpecCommand *)

\* the /woss commands that were answered
Answered ==
    { r \in DOMAIN requests :
        IsSome(requests[r].response) /\ requests[r].event.command = "/woss" }

CallsOf(r) == { requests[r].calls[i] : i \in 1..Len(requests[r].calls) }

RunsStats(r) ==
    /\ requests[r].spawned = Some("report_user_stats")
    /\ CallsOf(r) \subseteq {"conversations_history", "chat_post_ephemeral"}

OpensForm(r) ==
    /\ requests[r].spawned = Some("open_oss_modal")
    /\ CallsOf(r) \subseteq {"views_open"}

\* C12 as claimed: text "stats" starts the aggregation, and every other
\* text, empty or absent included, starts the display of the form.
C12_EveryOtherTextOpensForm ==
    \A r \in Answered :
        IF requests[r].event.text = Some("stats") THEN RunsStats(r)
        ELSE OpensForm(r)

\* C12 amended: text "stats" starts the aggregation; every other text that
\* is present, the empty text included, starts the display of the form;
\* with no text at all the handler starts neither and answers with the
\* usage placeholder. "stats" never opens the form and no other text runs
\* the aggregation.
C12_PresentTextSelectsPath ==
    \A r \in Answered :
        IF requests[r].event.text = Some("stats") THEN RunsStats(r)
        ELSE IF IsSome(requests[r].event.text) THEN OpensForm(r)
        ELSE /\ requests[r].spawned = None /\ requests[r].calls = <<>>
             /\ requests[r].response = Some(Ok(usage_message))

\* one command with text "stats" has fetched the history and posted the
\* summary, and one with the empty text has opened the form
C12_Witness ==
    /\ Len(requests) = 2
    /\ requests[1].event = [command |-> "/woss", text |-> Some("stats")]
    /\ requests[1].calls = <<"conversations_history", "chat_post_ephemeral">>
    /\ requests[1].task = "done"
    /\ requests[2].event = [command |-> "/woss", text |-> Some("")]
    /\ requests[2].calls = <<"views_open">>
    /\ requests[2].task = "done"

IsLoadingAck(answer) ==
    /\ IsSome(answer) /\ Unwrap(answer).ok
    /\ \E message \in LoadingMessages :
          Unwrap(answer).value = loading_message(message)

\* C13: for a stats or form command the handler returns its ephemeral
\* loading acknowledgement before the detached task made any gateway call,
\* and nothing the task does later, failing or not, changes that response
\* or touches another request in flight.
C13_AckIndependentOfTask ==
    [][ \A r \in DOMAIN requests :
          /\ (~IsSome(requests[r].response) /\ IsSome(requests'[r].response)
                  /\ IsSome(requests'[r].spawned))
                => /\ IsLoadingAck(requests'[r].response)
                   /\ requests'[r].calls = <<>>
                   /\ requests'[r].task # "done" /\ requests'[r].task # "panicked"
          /\ IsSome(requests[r].response)
                => requests'[r].response = requests[r].response
          /\ requests'[r] # requests[r]
                => \A q \in DOMAIN requests \ {r} : requests'[q] = requests[q]
      ]_vars

\* two stats commands were acknowledged; the task of the first panicked at
\* the history fetch and the task of the second posted its summary
C13_Witness ==
    /\ Len(requests) = 2
    /\ requests[1].spawned = Some("report_user_stats")
    /\ requests[2].spawned = Some("report_user_stats")
    /\ requests[1].task = "panicked"
    /\ requests[1].calls = <<"conversations_history">>
    /\ requests[2].task = "done"
    /\ IsLoadingAck(requests[1].response)
    /\ IsLoadingAck(requests[2].response)

-----------------------------------------------------------------------------
(* Claims about the form and the default country, checked under SpecForm *)

\* the users a form is shown to
Shown == { u \in UserIds : IsSome(views[u]) /\ IsSome(Unwrap(views[u]).view) }

ShownSelect(u) == Unwrap(Unwrap(views[u]).view).country

\* the options of the select of the modal that carry this value
Matching(value) ==
    { k \in 1..Len(Unwrap(Unwrap(modal).country.options)) :
        Unwrap(Unwrap(modal).country.options)[k].value = value }

C16_DefaultCountryPreselects ==
    \A u \in Shown :
        LET default == Unwrap(views[u]).default
            options == Unwrap(Unwrap(modal).country.options)
        IN  /\ ShownSelect(u).options = Some(options)
            /\ IF ~IsSome(default)
               THEN ShownSelect(u).initial_option
                        = Unwrap(modal).country.initial_option
               ELSE IF Matching(Unwrap(default)) = {}
               THEN ShownSelect(u).initial_option = None
               ELSE \E k \in Matching(Unwrap(default)) :
                        /\ ShownSelect(u).initial_option = Some(options[k])
                        /\ \A j \in Matching(Unwrap(default)) : k <= j

\* the modal has Germany as its initial option, the default handed over is
\* FR, which is no option, and the form is shown with no initial option
C16_Witness ==
    /\ "U1" \in Shown
    /\ Unwrap(modal).country.initial_option = Some(CountryOptions[1])
    /\ Unwrap(views["U1"]).default = Some(<<"FR">>)
    /\ ShownSelect("U1").initial_option = None

=============================================================================
